---------------------------- MODULE Spec2Model ----------------------------
(***************************************************************************)
(* Model of the invoice extraction engine: HybridExtractor.extract         *)
(* (modules/hybrid_engine.py), the Vision adapter GeminiExtractor.extract  *)
(* (modules/gemini_extractor.py) and RoundRobinKeyManager                  *)
(* (modules/key_manager.py).                                               *)
(*                                                                         *)
(* Python values are modelled as tagged records, so that None, "", 0 and   *)
(* a missing dictionary key stay distinct: None is [none |-> TRUE], a      *)
(* string s is [str |-> s], a number n is [num |-> n].  A dict is a        *)
(* function whose DOMAIN is the set of keys present.  Confidence values    *)
(* are in hundredths (0.85 is 85, 0.6 is 60); the clock is in seconds.     *)
(* The signature/stamp entries, doc_id and processing_time_sec of the      *)
(* output record are copied through by the code without influencing any    *)
(* decision and are left out of the record.                                *)
(***************************************************************************)
EXTENDS Integers, Sequences, FiniteSets, TLC

VARIABLES
    keys,               \* RoundRobinKeyManager.keys (= config.API_KEYS)
    current_index,      \* RoundRobinKeyManager.current_index
    key_cooldowns,      \* RoundRobinKeyManager.key_cooldowns: key -> deadline
    now,                \* time.time()
    gemini_available,   \* HybridExtractor.gemini_available
    easyocr_available,  \* HybridExtractor.easyocr_available
    local_llm_available,\* HybridExtractor.local_llm_available
    pc,                 \* position inside extract
    result,             \* extract's local `result`
    extraction_method,  \* extract's local `extraction_method`
    api_key,            \* GeminiExtractor.extract's local `api_key`
    record,             \* the value extract returned
    vision_ret,         \* what gemini.extract returned (or that it raised)
    ocr_ret,            \* what easyocr.extract returned (or that it raised)
    llm_ret,            \* what local_llm.extract returned (or that it raised)
    calls,              \* adapter / manager calls made for this document
    marks,              \* keys passed to mark_rate_limited for this document
    rate_signal,        \* a failure after get_key carried '429'/'RESOURCE_EXHAUSTED'
    km_last,            \* the last call on the key manager: its state before, its answer
    km_deadline,        \* key -> deadline set by the latest mark_rate_limited(key)
    km_cleared,         \* keys whose latest deadline was dropped by get_key's reset
    km_gets,            \* number of get_key calls so far (MaxGets: that many or more, or a key was marked)
    km_marked,          \* mark_rate_limited has been called at least once
    km_served,          \* keys returned by the latest consecutive get_key calls
                        \* that found the cooldown map empty (at most len(keys))
    threads,            \* the locals of each thread inside a key manager call
    image_paths,        \* process_batch's argument
    results,            \* process_batch's local `results`
    outcomes,           \* what self.extract returned (or that it raised), per document
    batch_pc,           \* position inside process_batch
    batch_output,       \* the report handed to json.dump
    writes,             \* number of times the output file was written
    args,               \* main: what --input names and --method
    main_pc,            \* position inside main
    extractor,          \* main's local `extractor` (the class of the object)
    exit_code           \* the values main returned: <<>>, <<0>> or <<1>>

extractVars == <<gemini_available, easyocr_available, local_llm_available, pc,
                 result, extraction_method, api_key, record, vision_ret,
                 ocr_ret, llm_ret, calls, marks, rate_signal>>

kmGhostVars == <<km_last, km_deadline, km_cleared, km_gets, km_marked, km_served,
                 threads>>

batchVars == <<image_paths, results, outcomes, batch_pc, batch_output, writes>>
mainVars == <<args, main_pc, extractor, exit_code>>

vars == <<keys, current_index, key_cooldowns, now, extractVars, kmGhostVars,
          batchVars, mainVars>>

kmVars == <<keys, current_index, key_cooldowns, now>>
flagVars == <<gemini_available, easyocr_available, local_llm_available>>

---------------------------------------------------------------------------
(* Bounds of the model *)

\* No document is started after MaxTime seconds.
MaxTime == 60
\* Seconds that pass in one step of the clock.
TickStep == 60

---------------------------------------------------------------------------
(* Python values *)

PyNone == [none |-> TRUE]
PyStr(s) == [str |-> s]
PyNum(n) == [num |-> n]
EmptyDict == <<>>

\* Marker for "the call raised" (not a Python value: it never reaches a dict).
Raised == [raised |-> TRUE]
\* Marker for "not called for this document".
NotCalled == [notcalled |-> TRUE]
\* A local that has not been assigned yet.
Unbound == "<unbound>"

IsNum(v) == DOMAIN v = {"num"}

\* bool(v) for the values above.
Truthy(v) == v # PyNone /\ v # PyStr("") /\ v # PyNum(0) /\ v # EmptyDict

\* d.get(k, default)
Get(d, k, default) == IF k \in DOMAIN d THEN d[k] ELSE default

\* d[k] = v
SetItem(d, k, v) == [j \in DOMAIN d \cup {k} |-> IF j = k THEN v ELSE d[j]]

FieldKeys == {"dealer_name", "model_name", "horse_power", "asset_cost"}

---------------------------------------------------------------------------
(* RoundRobinKeyManager *)

cooldown_duration == 60

KeyUniverse == {"AIzaA", "sk-C"}

\* k.startswith("AI") on the key universe
StartsWithAI(k) == k \in {"AIzaA", "AIzaB"}

\* config.API_KEYS: the key lists the configuration may hold, from the empty
\* list to every list of distinct keys.
Pools ==
    {s \in UNION {[1..m -> KeyUniverse] : m \in 0..Cardinality(KeyUniverse)} :
        \A i, j \in DOMAIN s : i # j => s[i] # s[j]}

RECURSIVE MinOf(_)
MinOf(S) ==
    LET x == CHOOSE y \in S : TRUE
    IN IF S = {x} THEN x
       ELSE LET m == MinOf(S \ {x}) IN IF x < m THEN x ELSE m

DelItem(d, k) == [j \in DOMAIN d \ {k} |-> d[j]]

\* The for loop of get_key: n candidates left to examine.
RECURSIVE Scan(_, _, _, _, _)
Scan(ks, idx, cds, t, n) ==
    IF n = 0
    THEN [found |-> FALSE, key |-> Unbound, idx |-> idx, cds |-> cds]
    ELSE LET key == ks[idx + 1]
             nxt == (idx + 1) % Len(ks)
         IN IF key \in DOMAIN cds
            THEN IF t < cds[key]
                 THEN Scan(ks, nxt, cds, t, n - 1)
                 ELSE [found |-> TRUE, key |-> key, idx |-> nxt,
                       cds |-> DelItem(cds, key)]
            ELSE [found |-> TRUE, key |-> key, idx |-> nxt, cds |-> cds]

\* Mutant: the rotation pointer is not advanced.
get_key_StuckCursor(ks, idx, cds, t) ==
    LET s == Scan(ks, idx, cds, t, Len(ks))
    IN [raised |-> ~s.found, key |-> s.key, idx |-> idx, cds |-> s.cds,
        now |-> t, slept |-> 0]

\* Mutant: when every key is on cooldown, the first key is returned and the
\* cooldown map is left as it is.
get_key_KeepsCooldowns(ks, idx, cds, t) ==
    LET s == Scan(ks, idx, cds, t, Len(ks))
    IN [raised |-> ~s.found /\ Len(ks) = 0,
        key |-> IF s.found THEN s.key ELSE IF Len(ks) = 0 THEN Unbound ELSE ks[1],
        idx |-> s.idx, cds |-> s.cds, now |-> t, slept |-> 0]

\* Mutant: the candidate at the pointer is returned without a look at its
\* cooldown.
get_key_IgnoresCooldown(ks, idx, cds, t) ==
    [raised |-> Len(ks) = 0,
     key |-> IF Len(ks) = 0 THEN Unbound ELSE ks[idx + 1],
     idx |-> IF Len(ks) = 0 THEN idx ELSE (idx + 1) % Len(ks),
     cds |-> cds, now |-> t, slept |-> 0]

\* Mutant: an expired cooldown entry is not removed when its key is returned.
get_key_KeepsExpired(ks, idx, cds, t) ==
    LET s == Scan(ks, idx, cds, t, Len(ks))
    IN IF s.found
       THEN [raised |-> FALSE, key |-> s.key, idx |-> s.idx, cds |-> cds,
             now |-> t, slept |-> 0]
       ELSE [raised |-> Len(ks) = 0,
             key |-> IF Len(ks) = 0 THEN Unbound ELSE ks[1],
             idx |-> s.idx, cds |-> EmptyDict, now |-> t, slept |-> 0]

\* Mutant: the call sleeps for the minimum remaining cooldown, without the
\* margin of one second.
get_key_NoMargin(ks, idx, cds, t) ==
    LET s == Scan(ks, idx, cds, t, Len(ks))
    IN IF s.found
       THEN [raised |-> FALSE, key |-> s.key, idx |-> s.idx, cds |-> s.cds,
             now |-> t, slept |-> 0]
       ELSE IF DOMAIN s.cds = {}
            THEN [raised |-> TRUE, key |-> Unbound, idx |-> s.idx,
                  cds |-> s.cds, now |-> t, slept |-> 0]
            ELSE LET min_wait == MinOf({s.cds[k] : k \in DOMAIN s.cds}) - t
                     wait == IF min_wait > 0 THEN min_wait ELSE 0
                 IN [raised |-> Len(ks) = 0,
                     key |-> IF Len(ks) = 0 THEN Unbound ELSE ks[1],
                     idx |-> s.idx, cds |-> EmptyDict, now |-> t + wait,
                     slept |-> wait]

\* Mutant: with every key on cooldown the call gives up and raises.
get_key_RaisesWhenAllCooling(ks, idx, cds, t) ==
    LET s == Scan(ks, idx, cds, t, Len(ks))
    IN [raised |-> ~s.found, key |-> s.key, idx |-> s.idx, cds |-> s.cds,
        now |-> t, slept |-> 0]

\* Mutant: the cursor is advanced without the modulo, so that it runs off the
\* end of the list instead of wrapping to 0.
get_key_CursorPastEnd(ks, idx, cds, t) ==
    LET s == Scan(ks, idx, cds, t, Len(ks))
    IN IF s.found
       THEN [raised |-> FALSE, key |-> s.key,
             idx |-> IF s.idx = 0 THEN Len(ks) ELSE s.idx, cds |-> s.cds,
             now |-> t, slept |-> 0]
       ELSE IF DOMAIN s.cds = {}
            THEN [raised |-> TRUE, key |-> Unbound, idx |-> s.idx,
                  cds |-> s.cds, now |-> t, slept |-> 0]
            ELSE LET min_wait == MinOf({s.cds[k] : k \in DOMAIN s.cds}) - t
                     wait == IF min_wait > 0 THEN min_wait + 1 ELSE 0
                 IN [raised |-> Len(ks) = 0,
                     key |-> IF Len(ks) = 0 THEN Unbound ELSE ks[1],
                     idx |-> s.idx, cds |-> EmptyDict, now |-> t + wait,
                     slept |-> wait]

\* Mutant: the fallback moves the cursor past the key it returns.
get_key_FallbackAdvancesCursor(ks, idx, cds, t) ==
    LET s == Scan(ks, idx, cds, t, Len(ks))
    IN IF s.found
       THEN [raised |-> FALSE, key |-> s.key, idx |-> s.idx, cds |-> s.cds,
             now |-> t, slept |-> 0]
       ELSE IF DOMAIN s.cds = {}
            THEN [raised |-> TRUE, key |-> Unbound, idx |-> s.idx,
                  cds |-> s.cds, now |-> t, slept |-> 0]
            ELSE LET min_wait == MinOf({s.cds[k] : k \in DOMAIN s.cds}) - t
                     wait == IF min_wait > 0 THEN min_wait + 1 ELSE 0
                 IN [raised |-> Len(ks) = 0,
                     key |-> IF Len(ks) = 0 THEN Unbound ELSE ks[1],
                     idx |-> IF Len(ks) = 0 THEN s.idx ELSE 1 % Len(ks),
                     cds |-> EmptyDict, now |-> t + wait, slept |-> wait]

\* get_key(): the key returned (or that it raised) and the manager state and
\* clock it leaves.  When the scan finds nothing: min() of an empty cooldown
\* map raises; otherwise the call sleeps min_wait + 1 when min_wait > 0,
\* clears the map and returns keys[0], which raises on an empty list.
get_key(ks, idx, cds, t) ==
    LET s == Scan(ks, idx, cds, t, Len(ks))
    IN IF s.found
       THEN [raised |-> FALSE, key |-> s.key, idx |-> s.idx, cds |-> s.cds,
             now |-> t, slept |-> 0]
       ELSE IF DOMAIN s.cds = {}
            THEN [raised |-> TRUE, key |-> Unbound, idx |-> s.idx,
                  cds |-> s.cds, now |-> t, slept |-> 0]
            ELSE LET min_wait == MinOf({s.cds[k] : k \in DOMAIN s.cds}) - t
                     wait == IF min_wait > 0 THEN min_wait + 1 ELSE 0
                 IN [raised |-> Len(ks) = 0,
                     key |-> IF Len(ks) = 0 THEN Unbound ELSE ks[1],
                     idx |-> s.idx, cds |-> EmptyDict, now |-> t + wait,
                     slept |-> wait]

\* Mutant: a key already on cooldown keeps its earlier deadline.
mark_rate_limited_KeepsEarlier(cds, key, t) ==
    IF key \in DOMAIN cds THEN cds ELSE SetItem(cds, key, t + cooldown_duration)

\* Mutant: the key is logged as rate limited and no cooldown is recorded.
mark_rate_limited_NoCooldown(cds, key, t) == cds

\* mark_rate_limited(key): the cooldown map it leaves.
mark_rate_limited(cds, key, t) == SetItem(cds, key, t + cooldown_duration)

---------------------------------------------------------------------------
(* What the adapters' collaborators can answer.  The orchestrator reaches   *)
(* its adapters only through `initialized` and `extract`; their answers are *)
(* the inputs of the model.                                                 *)

\* json.loads of the Vision model's reply: a dict with any of the keys.
VisionJson ==
    LET fieldSets == {[k \in FieldKeys |-> PyStr("gem")],
                      [k \in FieldKeys |-> PyNone],
                      [dealer_name |-> PyStr("gem")]}
        confs == {PyNone, PyNum(-100), PyNum(0), PyNum(90)}
    IN fieldSets \cup
       {SetItem(f, "confidence", c) : f \in fieldSets, c \in confs}

\* Field patterns an adapter may fill in: none, all, and each single field.
Patterns(vals) ==
    {[k \in FieldKeys |-> PyNone]} \cup
    {[k \in FieldKeys |-> vals[k]]} \cup
    {[k \in FieldKeys |-> IF k = one THEN vals[k] ELSE PyNone] : one \in FieldKeys}

OcrValues ==
    [dealer_name |-> PyStr("ocr dealer"), model_name |-> PyStr("ocr model"),
     horse_power |-> PyStr("45"), asset_cost |-> PyNum(500000)]

\* EasyOCRExtractor.extract, lines 28-156: None when the adapter is not
\* initialized, the image cannot be read or anything raises; otherwise the
\* dict of lines 141-152, with the fields whose patterns matched (`found`).
\* The signature and stamp entries, which extract does not read from an OCR
\* result's text, are left out.
EasyOCRExtract(readable, found) ==
    IF ~readable
    THEN PyNone
    ELSE [k \in FieldKeys \cup {"confidence", "extraction_method"} |->
            IF k = "confidence" THEN PyNum(60)
            ELSE IF k = "extraction_method" THEN PyStr("easyocr")
            ELSE IF k \in found THEN OcrValues[k] ELSE PyNone]

\* What EasyOCRExtractor.extract returns, over what the image holds.
EasyOCRReturns ==
    {EasyOCRExtract(r, f) :
        r \in BOOLEAN, f \in {{}, {"dealer_name"}, FieldKeys}}

\* easyocr.extract(image_path): raises, returns None, or returns a dict.
OcrOutcomes ==
    LET full == [k \in FieldKeys |-> OcrValues[k]]
        plain == {SetItem(f, "confidence", PyNum(60)) : f \in Patterns(OcrValues)}
                    \cup {SetItem(full, "confidence", PyNum(30))}
    IN {Raised, PyNone, EmptyDict} \cup plain \cup EasyOCRReturns \cup
       {SetItem(d, "raw_text", t) :
           d \in plain, t \in {PyStr(""), PyStr("invoice text")}}

LlmValues ==
    [dealer_name |-> PyStr("llm dealer"), model_name |-> PyStr("llm model"),
     horse_power |-> PyStr("50"), asset_cost |-> PyNum(850000)]

\* Non-null values that are false in Python: "" and 0.
LlmFalsy ==
    [dealer_name |-> PyStr(""), model_name |-> PyStr(""),
     horse_power |-> PyStr(""), asset_cost |-> PyNum(0)]

\* local_llm.extract(raw_text): raises, returns None, or returns a dict.
LlmOutcomes ==
    {Raised, PyNone, EmptyDict} \cup Patterns(LlmValues) \cup Patterns(LlmFalsy)
       \cup {[k \in FieldKeys |->
                IF k = one THEN LlmFalsy[k] ELSE LlmValues[k]] : one \in FieldKeys}

---------------------------------------------------------------------------
(* GeminiExtractor.extract *)

\* Mutant: the handler logs the failure and forgets to mark the key.
GeminiExcept_NoMark(sig, key, cds, t) ==
    IF sig /\ key = Unbound
    THEN [ret |-> Raised, cds |-> cds, marked |-> <<>>]
    ELSE [ret |-> PyNone, cds |-> cds, marked |-> <<>>]

\* Mutant: the handler passes the error text, not the key, to
\* mark_rate_limited.
GeminiExcept_MarksErrorText(sig, key, cds, t) ==
    IF sig
    THEN IF key = Unbound
         THEN [ret |-> Raised, cds |-> cds, marked |-> <<>>]
         ELSE [ret |-> PyNone, cds |-> mark_rate_limited(cds, "429", t),
               marked |-> <<"429">>]
    ELSE [ret |-> PyNone, cds |-> cds, marked |-> <<>>]

\* The except clause of GeminiExtractor.extract: `sig` says that the error
\* text contains '429' or 'RESOURCE_EXHAUSTED'.  With api_key unassigned the
\* handler itself raises (UnboundLocalError) and the call raises.
GeminiExcept(sig, key, cds, t) ==
    IF sig
    THEN IF key = Unbound
         THEN [ret |-> Raised, cds |-> cds, marked |-> <<>>]
         ELSE [ret |-> PyNone, cds |-> mark_rate_limited(cds, key, t),
               marked |-> <<key>>]
    ELSE [ret |-> PyNone, cds |-> cds, marked |-> <<>>]

\* The value returned for a parsed reply d.
GeminiResult(d) == SetItem(d, "extraction_method", PyStr("gemini"))

---------------------------------------------------------------------------
(* HybridExtractor.extract *)

NoCalls == [vision |-> 0, ocr |-> 0, llm |-> 0, get_key |-> 0, returned |-> 0]

Bump(c, what) == [c EXCEPT ![what] = @ + 1]

\* `if any(k.startswith("AI") for k in API_KEYS)`
AnyAIKey(ks) == \E i \in DOMAIN ks : StartsWithAI(ks[i])

\* Lines 69-75: what the Vision answer leaves in result / extraction_method.
\* A raised call, or a confidence that cannot be compared with 0, ends in the
\* except clause.
Strategy1Outcome(ret, method) ==
    IF ret = Raised
    THEN [result |-> PyNone, method |-> method]
    ELSE IF ~Truthy(ret)
         THEN [result |-> ret, method |-> method]
         ELSE LET c == Get(ret, "confidence", PyNum(0))
              IN IF ~IsNum(c)
                 THEN [result |-> PyNone, method |-> method]
                 ELSE IF c.num > 0
                      THEN [result |-> ret, method |-> "gemini"]
                      ELSE [result |-> ret, method |-> method]

\* Mutant: the offline pipeline runs whenever the OCR adapter is usable.
RunsOffline_IgnoresResult(res, ocrOk) == ocrOk

\* Line 80: whether the offline pipeline runs.
RunsOffline(res, ocrOk) == res = PyNone /\ ocrOk

\* Mutant: the offline pipeline has no except clause.
OfflineExcept_Reraises(res) == [escaped |-> TRUE, result |-> res]

\* Lines 106-108: the except clause of the offline pipeline.
OfflineExcept(res) == [escaped |-> FALSE, result |-> PyNone]

\* Mutant: the local model is asked whenever it is usable.
AsksLlm_IgnoresText(llmOk, ocr) == llmOk

\* Line 91: whether the local model is asked.
AsksLlm(llmOk, ocr) == llmOk /\ Truthy(Get(ocr, "raw_text", PyNone))

\* Lines 97-100, one line each: `if llm_result.get(k): result[k] = llm_result[k]`
MergeField(res, llm, k) ==
    IF Truthy(Get(llm, k, PyNone)) THEN SetItem(res, k, llm[k]) ELSE res

\* Lines 95-103: the merge of a local-model answer into result.
MergeLlm(res, method, llm) ==
    IF Truthy(llm)
    THEN LET r1 == MergeField(res, llm, "dealer_name")
             r2 == MergeField(r1, llm, "model_name")
             r3 == MergeField(r2, llm, "horse_power")
             r4 == MergeField(r3, llm, "asset_cost")
         IN [result |-> SetItem(r4, "confidence", PyNum(85)),
             method |-> "easyocr+local_llm"]
    ELSE [result |-> res, method |-> method]

\* Mutant: no failure record is substituted.
HandleFailure_Skipped(res) == res

\* Lines 113-120: `if result is None: result = {...}`
HandleFailure(res) ==
    IF res = PyNone
    THEN [k \in FieldKeys \cup {"confidence", "extraction_method"} |->
            IF k \in FieldKeys THEN PyNone
            ELSE IF k = "confidence" THEN PyNum(0) ELSE PyStr("failed")]
    ELSE res

\* cost_estimate_usd of a Vision call, in units of 0.0001 USD
GeminiCost == 3

\* Mutant: the charge follows the extraction_method entry the Vision adapter
\* put in its result, not the method the orchestrator settled on.
FormatOutput_ChargesByResultEntry(res, method) ==
    IF res = PyNone
    THEN Raised
    ELSE [fields |-> [k \in FieldKeys |-> Get(res, k, PyNone)],
          confidence |-> Get(res, "confidence", PyNum(0)),
          cost_estimate_usd |->
              IF Get(res, "extraction_method", PyNone) = PyStr("gemini")
              THEN GeminiCost ELSE 0,
          extraction_method |-> method]

\* Lines 128-148: result.get(...) on None raises.
FormatOutput(res, method) ==
    IF res = PyNone
    THEN Raised
    ELSE [fields |-> [k \in FieldKeys |-> Get(res, k, PyNone)],
          confidence |-> Get(res, "confidence", PyNum(0)),
          cost_estimate_usd |-> IF method = "gemini" THEN GeminiCost ELSE 0,
          extraction_method |-> method]

---------------------------------------------------------------------------
(* The state machine: one document after another through extract *)

NoRecord == [norecord |-> TRUE]

\* No thread is inside a key manager call.
NoThreads == [start |-> EmptyDict]

\* The variables that follow calls made on the key manager directly, while
\* no such call has been made.
KmGhostIdle ==
    /\ km_last = [op |-> "none"]
    /\ km_deadline = EmptyDict
    /\ km_cleared = {}
    /\ km_gets = 0
    /\ km_marked = FALSE
    /\ km_served = <<>>
    /\ threads = NoThreads

\* The variables of process_batch, while it is not running.
BatchIdle ==
    /\ image_paths = <<>>
    /\ results = <<>>
    /\ outcomes = <<>>
    /\ batch_pc = "idle"
    /\ batch_output = NoRecord
    /\ writes = 0

\* The variables of main, while the command is not running.
MainIdle ==
    /\ args = [input |-> "none", images |-> 0, method |-> "hybrid"]
    /\ main_pc = "idle"
    /\ extractor = "none"
    /\ exit_code = <<>>

Init ==
    /\ keys \in Pools
    /\ current_index = 0
    /\ key_cooldowns = EmptyDict
    /\ now = 0
    /\ gemini_available \in BOOLEAN
    /\ easyocr_available \in BOOLEAN
    /\ local_llm_available \in BOOLEAN
    /\ pc = "idle"
    /\ result = PyNone
    /\ extraction_method = "failed"
    /\ api_key = Unbound
    /\ record = NoRecord
    /\ vision_ret = NotCalled
    /\ ocr_ret = NotCalled
    /\ llm_ret = NotCalled
    /\ calls = NoCalls
    /\ marks = <<>>
    /\ rate_signal = FALSE
    /\ KmGhostIdle
    /\ BatchIdle
    /\ MainIdle

\* Lines 52-56: extract is entered for the next document.
StartExtract ==
    /\ pc \in {"idle", "done"}
    /\ now <= MaxTime
    /\ pc' = "strategy1"
    /\ result' = PyNone
    /\ extraction_method' = "failed"
    /\ api_key' = Unbound
    /\ record' = NoRecord
    /\ vision_ret' = NotCalled
    /\ ocr_ret' = NotCalled
    /\ llm_ret' = NotCalled
    /\ calls' = NoCalls
    /\ marks' = <<>>
    /\ rate_signal' = FALSE
    /\ UNCHANGED <<kmVars, flagVars>>
    /\ UNCHANGED <<kmGhostVars, batchVars, mainVars>>

\* Lines 63-69: the Vision adapter is called, or the strategy is skipped.
Strategy1 ==
    /\ pc = "strategy1"
    /\ IF gemini_available /\ AnyAIKey(keys)
       THEN pc' = "gemini_load" /\ calls' = Bump(calls, "vision")
       ELSE pc' = "strategy2" /\ UNCHANGED calls
    /\ UNCHANGED <<kmVars, flagVars, result, extraction_method, api_key,
                   record, vision_ret, ocr_ret, llm_ret, marks, rate_signal>>
    /\ UNCHANGED <<kmGhostVars, batchVars, mainVars>>

\* gemini_extractor.py lines 43-59: the image is opened and encoded, or that
\* fails with an error whose text may contain '429' (it names the file).
GeminiLoad ==
    /\ pc = "gemini_load"
    /\ \/ /\ pc' = "gemini_get_key"
          /\ UNCHANGED vision_ret
       \/ \E sig \in BOOLEAN :
             /\ vision_ret' = GeminiExcept(sig, api_key, key_cooldowns, now).ret
             /\ pc' = "gemini_returned"
    /\ UNCHANGED <<kmVars, flagVars, result, extraction_method, api_key,
                   record, ocr_ret, llm_ret, calls, marks, rate_signal>>
    /\ UNCHANGED <<kmGhostVars, batchVars, mainVars>>

\* gemini_extractor.py line 62: api_key = self.key_manager.get_key()
GeminiGetKey ==
    /\ pc = "gemini_get_key"
    /\ LET r == get_key(keys, current_index, key_cooldowns, now)
       IN /\ current_index' = r.idx
          /\ key_cooldowns' = r.cds
          /\ now' = r.now
          /\ calls' = Bump(calls, "get_key")
          /\ IF r.raised
             THEN /\ vision_ret' = GeminiExcept(FALSE, api_key, r.cds, r.now).ret
                  /\ pc' = "gemini_returned"
                  /\ UNCHANGED api_key
             ELSE /\ api_key' = r.key
                  /\ pc' = "gemini_call"
                  /\ UNCHANGED vision_ret
    /\ UNCHANGED <<keys, flagVars, result, extraction_method, record, ocr_ret,
                   llm_ret, marks, rate_signal>>
    /\ UNCHANGED <<kmGhostVars, batchVars, mainVars>>

\* gemini_extractor.py lines 63-146: the request with api_key.  It fails (the
\* error text may carry '429' / 'RESOURCE_EXHAUSTED'), answers with an empty
\* text, or answers with JSON.
GeminiCall ==
    /\ pc = "gemini_call"
    /\ \/ \E sig \in BOOLEAN :
             LET h == GeminiExcept(sig, api_key, key_cooldowns, now)
             IN /\ vision_ret' = h.ret
                /\ key_cooldowns' = h.cds
                /\ marks' = marks \o h.marked
                /\ rate_signal' = sig
       \/ /\ vision_ret' = PyNone
          /\ UNCHANGED <<key_cooldowns, marks, rate_signal>>
       \/ \E d \in VisionJson :
             /\ vision_ret' = GeminiResult(d)
             /\ UNCHANGED <<key_cooldowns, marks, rate_signal>>
    /\ pc' = "gemini_returned"
    /\ UNCHANGED <<keys, current_index, now, flagVars, result,
                   extraction_method, api_key, record, ocr_ret, llm_ret, calls>>
    /\ UNCHANGED <<kmGhostVars, batchVars, mainVars>>

\* Mutant: a Vision call that gave nothing is repeated with the next key.
AfterVision_Retries(ret) ==
    IF ret = PyNone THEN "gemini_get_key" ELSE "strategy2"

\* Where extract goes once self.gemini.extract has answered: the call stands
\* in straight-line code, so on to strategy 2 whatever the answer.
AfterVision(ret) == "strategy2"

\* Lines 69-75: the Vision answer is taken.
AfterGemini ==
    /\ pc = "gemini_returned"
    /\ LET o == Strategy1Outcome(vision_ret, extraction_method)
       IN result' = o.result /\ extraction_method' = o.method
    /\ pc' = AfterVision(vision_ret)
    /\ UNCHANGED <<kmVars, flagVars, api_key, record, vision_ret, ocr_ret,
                   llm_ret, calls, marks, rate_signal>>
    /\ UNCHANGED <<kmGhostVars, batchVars, mainVars>>

\* Line 80
Strategy2 ==
    /\ pc = "strategy2"
    /\ pc' = IF RunsOffline(result, easyocr_available) THEN "ocr_call" ELSE "finish"
    /\ UNCHANGED <<kmVars, flagVars, result, extraction_method, api_key,
                   record, vision_ret, ocr_ret, llm_ret, calls, marks, rate_signal>>
    /\ UNCHANGED <<kmGhostVars, batchVars, mainVars>>

\* Lines 82-91, 106-108: the OCR adapter is called.
OcrCall ==
    /\ pc = "ocr_call"
    /\ \E o \in OcrOutcomes :
          /\ ocr_ret' = o
          /\ calls' = Bump(calls, "ocr")
          /\ IF o = Raised
             THEN LET h == OfflineExcept(result)
                  IN /\ result' = h.result
                     /\ pc' = IF h.escaped THEN "escaped" ELSE "finish"
                     /\ UNCHANGED extraction_method
             ELSE IF ~Truthy(o)
                  THEN /\ pc' = "finish"
                       /\ UNCHANGED <<result, extraction_method>>
                  ELSE /\ result' = o
                       /\ extraction_method' = "easyocr"
                       /\ pc' = IF AsksLlm(local_llm_available, o)
                                THEN "llm_call" ELSE "finish"
    /\ UNCHANGED <<kmVars, flagVars, api_key, record, vision_ret, llm_ret,
                   marks, rate_signal>>
    /\ UNCHANGED <<kmGhostVars, batchVars, mainVars>>

\* Lines 93-103, 106-108: the local model is called on the raw text.
LlmCall ==
    /\ pc = "llm_call"
    /\ \E l \in LlmOutcomes :
          /\ llm_ret' = l
          /\ calls' = Bump(calls, "llm")
          /\ IF l = Raised
             THEN LET h == OfflineExcept(result)
                  IN /\ result' = h.result
                     /\ pc' = IF h.escaped THEN "escaped" ELSE "finish"
                     /\ UNCHANGED extraction_method
             ELSE LET m == MergeLlm(result, extraction_method, l)
                  IN /\ result' = m.result
                     /\ extraction_method' = m.method
                     /\ pc' = "finish"
    /\ UNCHANGED <<kmVars, flagVars, api_key, record, vision_ret, ocr_ret,
                   marks, rate_signal>>
    /\ UNCHANGED <<kmGhostVars, batchVars, mainVars>>

\* Lines 113-148: the failure record is substituted and the output is built.
Finish ==
    /\ pc = "finish"
    /\ LET res == HandleFailure(result)
           out == FormatOutput(res, extraction_method)
       IN /\ result' = res
          /\ IF out = Raised
             THEN pc' = "escaped" /\ UNCHANGED <<record, calls>>
             ELSE /\ pc' = "done"
                  /\ record' = out
                  /\ calls' = Bump(calls, "returned")
    /\ UNCHANGED <<kmVars, flagVars, extraction_method, api_key, vision_ret,
                   ocr_ret, llm_ret, marks, rate_signal>>
    /\ UNCHANGED <<kmGhostVars, batchVars, mainVars>>

\* Wall-clock time passes before a document's strategies run.
Tick ==
    /\ pc = "strategy1"
    /\ now + TickStep <= MaxTime
    /\ now' = now + TickStep
    /\ UNCHANGED <<keys, current_index, key_cooldowns, flagVars, pc, result,
                   extraction_method, api_key, record, vision_ret, ocr_ret,
                   llm_ret, calls, marks, rate_signal>>
    /\ UNCHANGED <<kmGhostVars, batchVars, mainVars>>

Next ==
    \/ StartExtract
    \/ Strategy1
    \/ GeminiLoad
    \/ GeminiGetKey
    \/ GeminiCall
    \/ AfterGemini
    \/ Strategy2
    \/ OcrCall
    \/ LlmCall
    \/ Finish
    \/ Tick

Spec == Init /\ [][Next]_vars

---------------------------------------------------------------------------
(* Properties of HybridExtractor.extract *)

Methods == {"gemini", "easyocr", "easyocr+local_llm", "failed"}

Returned == pc = "done"

IsDict(v) == v \notin {NotCalled, Raised, PyNone}

\* gemini.extract was called and returned a result with confidence > 0.
VisionSucceeded ==
    /\ IsDict(vision_ret)
    /\ IsNum(Get(vision_ret, "confidence", PyNum(0)))
    /\ Get(vision_ret, "confidence", PyNum(0)).num > 0

\* easyocr.extract was called and returned a (non-empty) result.
OcrReturnedResult == IsDict(ocr_ret) /\ Truthy(ocr_ret)

\* The record carries the OCR answer as it was returned.
RecordIsOcrOnly ==
    /\ record.extraction_method = "easyocr"
    /\ record.fields = [k \in FieldKeys |-> Get(ocr_ret, k, PyNone)]
    /\ record.confidence = Get(ocr_ret, "confidence", PyNum(0))

WellFormed(r) ==
    /\ DOMAIN r = {"fields", "confidence", "cost_estimate_usd", "extraction_method"}
    /\ DOMAIN r.fields = FieldKeys
    /\ r.extraction_method \in Methods

\* C1: in every record extract returns, confidence is 0 exactly when
\* extraction_method is 'failed'.
C1_ConfidenceZeroIffFailed ==
    Returned =>
        ((record.confidence = PyNum(0)) <=> (record.extraction_method = "failed"))

\* C2: a call of extract never ends without a record, returns exactly one
\* record, and the record's fields hold exactly the four keys dealer_name,
\* model_name, horse_power and asset_cost, whatever the adapters answered.
C2_OneRecordWithFourFields ==
    /\ pc # "escaped"
    /\ Returned => /\ calls.returned = 1
                   /\ record # NoRecord
                   /\ DOMAIN record.fields = FieldKeys
    /\ ~Returned => calls.returned = 0 /\ record = NoRecord

\* C2 witness: a total failure (the OCR adapter raised, nothing else ran) has
\* returned its record of four null fields.
C2_Witness ==
    /\ Returned
    /\ ocr_ret = Raised
    /\ record.extraction_method = "failed"
    /\ record.fields = [k \in FieldKeys |-> PyNone]

\* C3: once the Vision adapter has returned a result with confidence > 0,
\* neither the OCR adapter nor the local model is called for the document, and
\* the record's extraction_method is 'gemini'.
C3_VisionSuccessStopsChain ==
    VisionSucceeded =>
        /\ calls.ocr = 0
        /\ calls.llm = 0
        /\ Returned => record.extraction_method = "gemini"

\* C3 witness: a record was returned after a Vision result of confidence 0.9,
\* with a usable OCR adapter standing by.
C3_Witness ==
    /\ Returned
    /\ VisionSucceeded
    /\ easyocr_available
    /\ local_llm_available

\* C4: when the Vision strategy did not succeed and the OCR adapter is usable,
\* the OCR adapter has been called by the time the record is returned.
C4_FallbackReachesOcr ==
    (Returned /\ easyocr_available /\ ~VisionSucceeded) => calls.ocr = 1

\* C5: a record whose extraction_method is 'failed' has four null fields and
\* confidence 0.0.
C5_FailedRecordIsAllNull ==
    (Returned /\ record.extraction_method = "failed") =>
        /\ record.fields = [k \in FieldKeys |-> PyNone]
        /\ record.confidence = PyNum(0)

\* The local model answered with a dict whose four fields are all null.
LlmReturnedAllNull ==
    /\ IsDict(llm_ret)
    /\ Truthy(llm_ret)
    /\ \A k \in FieldKeys : Get(llm_ret, k, PyNone) = PyNone

\* C6: when Vision did not succeed, OCR returned a result and the local model
\* is unusable or returned four null fields, the record is the OCR result:
\* method 'easyocr', fields and confidence as OCR returned them.
C6_NoEnrichmentKeepsOcr ==
    (/\ Returned
     /\ ~VisionSucceeded
     /\ OcrReturnedResult
     /\ (~local_llm_available \/ LlmReturnedAllNull))
        => RecordIsOcrOnly

\* The local model returned a non-null value for at least one of the fields.
LlmOverrode ==
    /\ IsDict(llm_ret)
    /\ \E k \in FieldKeys : Get(llm_ret, k, PyNone) # PyNone

\* C7: when OCR returned a result, the record has method 'easyocr+local_llm'
\* with confidence 0.85 if, and only if, the local model overrode at least one
\* of the four fields.
C7_EnrichedIffOverride ==
    (Returned /\ OcrReturnedResult) =>
        (LlmOverrode <=>
            (/\ record.extraction_method = "easyocr+local_llm"
             /\ record.confidence = PyNum(85)))

\* C8: when OCR returned a result and the local model then raised or returned
\* null, the record is the OCR result: method 'easyocr', fields and confidence
\* as OCR returned them.
C8_LlmFailureKeepsOcr ==
    (Returned /\ OcrReturnedResult /\ llm_ret \in {Raised, PyNone})
        => RecordIsOcrOnly

\* C9: no error raised by the Vision, OCR or local-model adapter leaves
\* extract: the call does not end with an error, and when an adapter raised,
\* the call still returned one well-formed record.
C9_AdapterErrorsAbsorbed ==
    /\ pc # "escaped"
    /\ (Returned /\ Raised \in {vision_ret, ocr_ret, llm_ret}) =>
          WellFormed(record) /\ calls.returned = 1

\* C9 witness: the Vision adapter raised, then the OCR adapter raised, and a
\* record was returned.
C9_Witness ==
    /\ Returned
    /\ vision_ret = Raised
    /\ ocr_ret = Raised

\* C9 witness (second case): OCR returned a result, the local model was
\* called with its raw text and raised, and a record was returned.
C9_WitnessLlm ==
    /\ Returned
    /\ OcrReturnedResult
    /\ llm_ret = Raised

\* C10: when the request made with the key that get_key handed out fails with
\* a rate-limit signal ('429' / 'RESOURCE_EXHAUSTED'), mark_rate_limited has
\* been called once, with that key, and the key is on cooldown, from the
\* moment gemini.extract returns: before the OCR adapter is called and before
\* the record is returned.
C10_RateLimitMarksHandedKey ==
    rate_signal =>
        /\ pc \in {"gemini_returned", "strategy2", "ocr_call", "llm_call",
                   "finish", "done"}
        /\ calls.get_key = 1
        /\ api_key # Unbound
        /\ marks = <<api_key>>
        /\ api_key \in DOMAIN key_cooldowns
        /\ pc \in {"gemini_returned", "strategy2", "ocr_call"} =>
              calls.ocr = 0 /\ record = NoRecord

\* C10 witness: the OCR adapter is about to be called after a rate-limited
\* request, and the second key of the pool, the one handed out, is marked.
C10_Witness ==
    /\ pc = "ocr_call"
    /\ rate_signal
    /\ Len(keys) = 2
    /\ api_key = keys[2]
    /\ marks = <<api_key>>

---------------------------------------------------------------------------
(* RoundRobinKeyManager on its own: any sequence of get_key and             *)
(* mark_rate_limited calls, with the clock advancing between them           *)

\* No call is made and the clock is not advanced after KmMaxTime seconds.
KmMaxTime == 60
\* Seconds that pass in one step of the clock.
KmTickStep == 30
\* get_key calls are counted up to MaxGets, while no key has been marked.
MaxGets == 5

KmKeyList == <<"AIzaA", "AIzaB", "sk-C">>

KmKeyUniverse == {KmKeyList[i] : i \in DOMAIN KmKeyList}

\* RoundRobinKeyManager(keys): the empty list and the lists of one, two and
\* three distinct keys (the manager never looks inside a key).
KmPools == {SubSeq(KmKeyList, 1, n) : n \in 0..Len(KmKeyList)}

\* The state after RoundRobinKeyManager.__init__.
\* The HybridExtractor objects of the process.  Each is built by __init__ with
\* GeminiExtractor(key_manager), the module-level manager of line 18: their
\* calls all act on keys, current_index and key_cooldowns.
Instances == {"extractor1", "extractor2"}

\* The last n entries of a sequence.
LastN(sq, n) ==
    IF Len(sq) <= n THEN sq ELSE SubSeq(sq, Len(sq) - n + 1, Len(sq))

InitKM ==
    /\ keys \in KmPools
    /\ current_index = 0
    /\ key_cooldowns = EmptyDict
    /\ now = 0
    /\ gemini_available = FALSE
    /\ easyocr_available = FALSE
    /\ local_llm_available = FALSE
    /\ pc = "idle"
    /\ result = PyNone
    /\ extraction_method = "failed"
    /\ api_key = Unbound
    /\ record = NoRecord
    /\ vision_ret = NotCalled
    /\ ocr_ret = NotCalled
    /\ llm_ret = NotCalled
    /\ calls = NoCalls
    /\ marks = <<>>
    /\ rate_signal = FALSE
    /\ KmGhostIdle
    /\ BatchIdle
    /\ MainIdle

\* self.gemini.key_manager.get_key(), through instance i
KmGetKey ==
    /\ now <= KmMaxTime
    /\ LET r == get_key(keys, current_index, key_cooldowns, now)
           found == Scan(keys, current_index, key_cooldowns, now, Len(keys)).found
       IN /\ current_index' = r.idx
          /\ key_cooldowns' = r.cds
          /\ now' = r.now
          /\ \E i \in Instances :
                km_last' = [op |-> "get_key", via |-> i, key |-> r.key,
                            raised |-> r.raised, slept |-> r.slept,
                            fallback |-> ~found, now |-> r.now,
                            pre_idx |-> current_index,
                            pre_cds |-> key_cooldowns, pre_now |-> now,
                            pre_keys |-> keys]
          /\ km_cleared' = IF found THEN km_cleared
                           ELSE km_cleared \cup DOMAIN key_cooldowns
          /\ km_served' = IF key_cooldowns = EmptyDict /\ ~r.raised
                          THEN LastN(Append(km_served, r.key), Len(keys))
                          ELSE <<>>
    /\ km_gets' = IF km_gets < MaxGets THEN km_gets + 1 ELSE km_gets
    /\ UNCHANGED <<keys, km_deadline, km_marked, threads, extractVars, batchVars,
                   mainVars>>

\* self.gemini.key_manager.mark_rate_limited(k), through instance i
KmMark ==
    /\ now <= KmMaxTime
    /\ \E k \in KmKeyUniverse, i \in Instances :
          /\ key_cooldowns' = mark_rate_limited(key_cooldowns, k, now)
          /\ km_deadline' = SetItem(km_deadline, k, now + cooldown_duration)
          /\ km_cleared' = km_cleared \ {k}
          /\ km_last' = [op |-> "mark", via |-> i, key |-> k, now |-> now,
                         pre_idx |-> current_index, pre_cds |-> key_cooldowns,
                         pre_now |-> now, pre_keys |-> keys]
    /\ km_marked' = TRUE
    /\ km_gets' = MaxGets
    /\ km_served' = <<>>
    /\ UNCHANGED <<keys, current_index, now, threads, extractVars, batchVars,
                   mainVars>>

\* Wall-clock time passes between two calls.
KmTick ==
    /\ now + KmTickStep <= KmMaxTime
    /\ now' = now + KmTickStep
    /\ UNCHANGED <<keys, current_index, key_cooldowns, kmGhostVars,
                   extractVars, batchVars, mainVars>>

NextKM ==
    \/ KmGetKey
    \/ KmMark
    \/ KmTick

SpecKM == InitKM /\ [][NextKM]_vars

\* C20: cost_estimate_usd of a returned record is the fixed Vision charge
\* exactly when extraction_method is 'gemini' and 0 otherwise; a document
\* whose Vision call was made and failed has cost 0.
C20_CostOnlyForGemini ==
    Returned =>
        /\ record.cost_estimate_usd =
              IF record.extraction_method = "gemini" THEN GeminiCost ELSE 0
        /\ (calls.vision > 0 /\ ~VisionSucceeded) => record.cost_estimate_usd = 0

\* C20 witness: the Vision call was made and failed (it returned None), the
\* OCR adapter resolved the document, and the record costs nothing.
C20_Witness ==
    /\ Returned
    /\ calls.vision = 1
    /\ vision_ret = PyNone
    /\ record.extraction_method = "easyocr"
    /\ record.cost_estimate_usd = 0

\* C20 witness: the Vision call was made and answered, and the record carries
\* the charge.
C20_WitnessCharged ==
    /\ Returned
    /\ VisionSucceeded
    /\ record.extraction_method = "gemini"
    /\ record.cost_estimate_usd = GeminiCost

---------------------------------------------------------------------------
(* Properties of RoundRobinKeyManager *)

LastWasGetKey == km_last.op = "get_key"

\* Key k was on an unexpired cooldown when the last call was made.
CoolingBefore(k) ==
    k \in DOMAIN km_last.pre_cds /\ km_last.pre_now < km_last.pre_cds[k]

PoolKeys == {keys[i] : i \in DOMAIN keys}

\* C11: with a pool of n >= 1 keys, no key ever marked and the cursor at 0,
\* the k-th get_key() call returns keys[(k-1) mod n].
C11_RoundRobinOrder ==
    (LastWasGetKey /\ ~km_marked /\ km_gets < MaxGets /\ Len(keys) >= 1) =>
        /\ ~km_last.raised
        /\ km_last.key = keys[((km_gets - 1) % Len(keys)) + 1]

\* C11 witness: with three keys, the fourth call has returned the first key
\* again.
C11_Witness ==
    /\ LastWasGetKey
    /\ ~km_marked
    /\ Len(keys) = 3
    /\ km_gets = 4
    /\ km_last.key = keys[1]

\* From its deadline on, the key at the cursor is returned by get_key without
\* a wait.
EligibleAfterDeadline ==
    (/\ LastWasGetKey
     /\ Len(keys) >= 1
     /\ keys[km_last.pre_idx + 1] \in DOMAIN km_deadline
     /\ km_last.pre_now >= km_deadline[keys[km_last.pre_idx + 1]])
        => /\ km_last.key = keys[km_last.pre_idx + 1]
           /\ km_last.slept = 0

\* C12 (as claimed): after mark_rate_limited(A) at time t, no get_key() call
\* returns A while the clock is before t + cooldown_duration, and from
\* t + cooldown_duration on A is returned again.
C12_NeverBeforeDeadline ==
    /\ (LastWasGetKey /\ ~km_last.raised /\ km_last.key \in DOMAIN km_deadline)
          => km_last.now >= km_deadline[km_last.key]
    /\ EligibleAfterDeadline

\* C12 (amended): after mark_rate_limited(A) at time t, a get_key() call
\* returns A while the clock is before t + cooldown_duration only if a
\* get_key() call made since that mark (this one included) found every key on
\* cooldown and cleared the cooldown map; from t + cooldown_duration on A is
\* returned again.
C12_NotBeforeDeadlineUnlessReset ==
    /\ (LastWasGetKey /\ ~km_last.raised /\ km_last.key \in DOMAIN km_deadline)
          => \/ km_last.now >= km_deadline[km_last.key]
             \/ km_last.key \in km_cleared
    /\ EligibleAfterDeadline

\* C12 witness: the key at the cursor was marked, its deadline has not come,
\* no reset has dropped it, and get_key passed over it and returned another
\* key.
C12_Witness ==
    /\ LastWasGetKey
    /\ Len(keys) >= 2
    /\ keys[km_last.pre_idx + 1] \in DOMAIN km_deadline
    /\ keys[km_last.pre_idx + 1] \notin km_cleared
    /\ km_last.now < km_deadline[keys[km_last.pre_idx + 1]]
    /\ ~km_last.raised
    /\ km_last.key # keys[km_last.pre_idx + 1]

\* C13: when every key of a non-empty pool is on cooldown, get_key() does not
\* raise, returns keys[0] and leaves the cooldown map empty.
C13_AllCoolingReturnsFirstKey ==
    (LastWasGetKey /\ Len(keys) >= 1 /\ \A k \in PoolKeys : CoolingBefore(k)) =>
        /\ ~km_last.raised
        /\ km_last.key = keys[1]
        /\ key_cooldowns = EmptyDict

\* C13 witness: three keys were on cooldown and the cursor was not at the
\* first; the call has returned.
C13_Witness ==
    /\ LastWasGetKey
    /\ Len(keys) = 3
    /\ \A k \in PoolKeys : CoolingBefore(k)
    /\ km_last.pre_idx = 1
    /\ km_last.key = keys[1]

\* C14: when at least one key of the pool is not on an unexpired cooldown,
\* get_key() returns without a wait, and the key it returns is a key of the
\* pool whose cooldown is absent or has elapsed.
C14_ViableKeyServedWithoutWait ==
    (LastWasGetKey /\ \E k \in PoolKeys : ~CoolingBefore(k)) =>
        /\ ~km_last.raised
        /\ km_last.slept = 0
        /\ km_last.now = km_last.pre_now
        /\ km_last.key \in PoolKeys
        /\ ~CoolingBefore(km_last.key)

\* C14 witness: two of three keys were on cooldown, the cursor stood at one of
\* them, and the third key was returned.
C14_Witness ==
    /\ LastWasGetKey
    /\ Len(keys) = 3
    /\ Cardinality({k \in PoolKeys : CoolingBefore(k)}) = 2
    /\ CoolingBefore(keys[km_last.pre_idx + 1])
    /\ ~CoolingBefore(km_last.key)

---------------------------------------------------------------------------
(* HybridExtractor.process_batch *)

MaxDocs == 3

\* The input paths main hands over: distinct and sorted.
PathList == <<"a.png", "b.png", "c.png", "d.png", "e.png">>

\* Path(path).stem
Stem(path) ==
    LET stems == <<"a", "b", "c", "d", "e">>
    IN stems[CHOOSE i \in DOMAIN PathList : PathList[i] = path]

\* (result, extraction_method) as extract holds them at line 110, one pair for
\* each way a document can go: Vision success, OCR alone (two confidences),
\* OCR enriched by the local model, nothing worked, the local model raised
\* after OCR, and a Vision answer with a confidence that is not positive.
ExtractEnds ==
    LET ocrFull == SetItem([k \in FieldKeys |-> OcrValues[k]], "confidence", PyNum(60))
        ocrWeak == SetItem([k \in FieldKeys |-> OcrValues[k]], "confidence", PyNum(30))
        ocrText == SetItem(ocrFull, "raw_text", PyStr("invoice text"))
        gem == [k \in FieldKeys |-> PyStr("gem")]
    IN {[result |-> GeminiResult(SetItem(gem, "confidence", PyNum(90))),
         method |-> "gemini"],
        [result |-> ocrFull, method |-> "easyocr"],
        [result |-> ocrWeak, method |-> "easyocr"],
        MergeLlm(ocrText, "easyocr", [k \in FieldKeys |-> LlmValues[k]]),
        [result |-> PyNone, method |-> "failed"],
        [result |-> PyNone, method |-> "easyocr"],
        [result |-> GeminiResult(SetItem(gem, "confidence", PyNum(-100))),
         method |-> "failed"]}

\* What self.extract(path) can hand to the loop: a record, or an exception
\* (Path(image_path) at line 52 is outside every try block).
ExtractReturns ==
    {FormatOutput(HandleFailure(e.result), e.method) : e \in ExtractEnds}
        \cup {Raised}

\* Mutant: the error record carries no error message.
error_result_NoError(path, t) ==
    [doc_id |-> PyStr(Stem(path)),
     source_file |-> PyStr(path),
     error |-> PyNone,
     confidence |-> PyNum(0),
     extraction_method |-> "failed",
     timestamp |-> PyNum(t)]

\* Lines 198-205: the record built for a document whose extraction raised.
error_result(path, t) ==
    [doc_id |-> PyStr(Stem(path)),
     source_file |-> PyStr(path),
     error |-> PyStr("error text"),
     confidence |-> PyNum(0),
     extraction_method |-> "failed",
     timestamp |-> PyNum(t)]

\* Lines 188-205: the record of one document, from what extract did.
LoopBody(o, path, t) ==
    IF o = Raised
    THEN error_result(path, t)
    ELSE SetItem(SetItem(o, "source_file", PyStr(path)), "timestamp", PyNum(t))

\* Mutant: each record is put in front of the earlier ones.
AppendResult_AtFront(rs, r) == <<r>> \o rs

\* results.append(...)
AppendResult(rs, r) == Append(rs, r)

\* r.get('confidence', 0), in hundredths
Conf(r) == Get(r, "confidence", PyNum(0)).num

\* r.get('cost_estimate_usd', 0), in units of 0.0001 USD
Cost(r) == Get(r, "cost_estimate_usd", 0)

RECURSIVE SumConfidence(_, _)
\* sum(r.get('confidence', 0) for r in results), over the first n records
SumConfidence(rs, n) ==
    IF n = 0 THEN 0 ELSE Conf(rs[n]) + SumConfidence(rs, n - 1)

RECURSIVE SumCost(_, _)
\* sum(r.get('cost_estimate_usd', 0) for r in results), over the first n records
SumCost(rs, n) ==
    IF n = 0 THEN 0 ELSE Cost(rs[n]) + SumCost(rs, n - 1)

\* Line 215
successful(rs) == Cardinality({i \in DOMAIN rs : Conf(rs[i]) > 0})

\* Mutant: the quotient is cut off, not rounded.
RoundDiv_Floor(a, b) == a \div b

\* round(a / b) for b > 0: the nearest integer, a tie going to the even one.
RoundDiv(a, b) ==
    LET q == a \div b
        r == a % b
    IN IF 2 * r < b THEN q
       ELSE IF 2 * r > b THEN q + 1
       ELSE IF q % 2 = 0 THEN q ELSE q + 1

\* Lines 218 and 229: round(avg_confidence, 3), in thousandths.
avg_confidence(rs, total) ==
    IF total > 0 THEN RoundDiv(SumConfidence(rs, Len(rs)) * 10, total) ELSE 0

\* Lines 223-236: the report (times are left out).  success_rate is in tenths
\* of a percent.
BatchReport(rs, total) ==
    [batch_info |->
        [total_documents |-> total,
         successful |-> successful(rs),
         failed |-> total - successful(rs),
         success_rate |-> IF total > 0
                          THEN RoundDiv(successful(rs) * 1000, total) ELSE 0,
         avg_confidence |-> avg_confidence(rs, total),
         total_cost_usd |-> SumCost(rs, Len(rs))],
     documents |-> rs]

InitBatch ==
    /\ keys = <<>>
    /\ current_index = 0
    /\ key_cooldowns = EmptyDict
    /\ now = 0
    /\ gemini_available = FALSE
    /\ easyocr_available = FALSE
    /\ local_llm_available = FALSE
    /\ pc = "idle"
    /\ result = PyNone
    /\ extraction_method = "failed"
    /\ api_key = Unbound
    /\ record = NoRecord
    /\ vision_ret = NotCalled
    /\ ocr_ret = NotCalled
    /\ llm_ret = NotCalled
    /\ calls = NoCalls
    /\ marks = <<>>
    /\ rate_signal = FALSE
    /\ KmGhostIdle
    /\ \E n \in 0..MaxDocs : image_paths = SubSeq(PathList, 1, n)
    /\ results = <<>>
    /\ outcomes = <<>>
    /\ batch_pc = "loop"
    /\ batch_output = NoRecord
    /\ writes = 0
    /\ MainIdle

\* Lines 182-209: one turn of the loop.
BatchDoc ==
    /\ batch_pc = "loop"
    /\ Len(results) < Len(image_paths)
    /\ \E o \in ExtractReturns :
          /\ results' = AppendResult(results,
                            LoopBody(o, image_paths[Len(results) + 1], now))
          /\ outcomes' = Append(outcomes, o)
    /\ UNCHANGED <<image_paths, batch_pc, batch_output, writes>>
    /\ UNCHANGED <<keys, current_index, key_cooldowns, now, extractVars,
                   kmGhostVars, mainVars>>

\* Mutant: a failed write is logged and the call goes on.
AfterWrite_Swallowed(ok) == "summary"

\* Lines 238-239: where process_batch stands after open and json.dump, which
\* are in no try block: an OSError leaves the call.
AfterWrite(ok) == IF ok THEN "summary" ELSE "raised_oserror"

\* Lines 213-239: the statistics, the report and its write, which can fail.
BatchSave ==
    /\ batch_pc = "loop"
    /\ Len(results) = Len(image_paths)
    /\ batch_output' = BatchReport(results, Len(image_paths))
    /\ \E ok \in BOOLEAN :
          /\ batch_pc' = AfterWrite(ok)
          /\ writes' = IF ok THEN writes + 1 ELSE writes
    /\ UNCHANGED <<image_paths, results, outcomes>>
    /\ UNCHANGED <<keys, current_index, key_cooldowns, now, extractVars,
                   kmGhostVars, mainVars>>

\* Lines 242-248: the summary, whose line 244 divides by total, and the return.
BatchSummary ==
    /\ batch_pc = "summary"
    /\ batch_pc' = IF Len(image_paths) = 0 THEN "raised_zerodivision" ELSE "returned"
    /\ UNCHANGED <<image_paths, results, outcomes, batch_output, writes>>
    /\ UNCHANGED <<keys, current_index, key_cooldowns, now, extractVars,
                   kmGhostVars, mainVars>>

NextBatch ==
    \/ BatchDoc
    \/ BatchSave
    \/ BatchSummary

SpecBatch == InitBatch /\ [][NextBatch]_vars

---------------------------------------------------------------------------
(* Properties of HybridExtractor.process_batch *)

Saved == batch_output # NoRecord

\* The keys extract's record and the loop's record have in common agree.
CarriesOutcome(r, o) ==
    /\ DOMAIN r = DOMAIN o \cup {"source_file", "timestamp"}
    /\ \A k \in DOMAIN o : r[k] = o[k]

\* C15: over N documents, a document on which extract raises gets a record
\* with confidence 0, extraction_method 'failed' and a non-null error; every
\* other record is what extract returned for its document (with source_file
\* and timestamp added); the report holds exactly N records.
C15_RaisingDocumentIsIsolated ==
    /\ Len(results) = Len(outcomes)
    /\ \A i \in DOMAIN results :
          IF outcomes[i] = Raised
          THEN /\ results[i].confidence = PyNum(0)
               /\ results[i].extraction_method = "failed"
               /\ "error" \in DOMAIN results[i]
               /\ results[i].error # PyNone
          ELSE CarriesOutcome(results[i], outcomes[i])
    /\ Saved => /\ batch_output.documents = results
                /\ Len(batch_output.documents) = Len(image_paths)

\* C15 witness: of three documents the second raised and the others did not;
\* the report is written with three records.
C15_Witness ==
    /\ Saved
    /\ writes = 1
    /\ Len(image_paths) = 3
    /\ outcomes[2] = Raised
    /\ outcomes[1] # Raised
    /\ outcomes[3] # Raised
    /\ batch_output.documents[3].extraction_method = "gemini"

\* C16: every record of the report's documents, the records synthesized for a
\* document whose extraction raised included, has `fields` with the four keys
\* dealer_name, model_name, horse_power and asset_cost.
C16_EveryRecordHasFields ==
    \A i \in DOMAIN results :
        /\ "fields" \in DOMAIN results[i]
        /\ DOMAIN results[i].fields = FieldKeys

\* C17: the i-th entry of the report's documents is the record of the i-th
\* input path, whichever documents succeeded, failed or raised.
C17_ReportKeepsInputOrder ==
    /\ Len(results) <= Len(image_paths)
    /\ \A i \in DOMAIN results :
          /\ results[i].source_file = PyStr(image_paths[i])
          /\ outcomes[i] # Raised => CarriesOutcome(results[i], outcomes[i])
    /\ Saved => /\ DOMAIN batch_output.documents = DOMAIN image_paths
                /\ \A i \in DOMAIN image_paths :
                      batch_output.documents[i].source_file = PyStr(image_paths[i])

\* C17 witness: a report of three documents in which a raised document stands
\* between a failed one and a successful one.
C17_Witness ==
    /\ Saved
    /\ Len(image_paths) = 3
    /\ outcomes[1] # Raised
    /\ outcomes[1].extraction_method = "failed"
    /\ outcomes[2] = Raised
    /\ outcomes[3] # Raised
    /\ Conf(outcomes[3]) > 0
    /\ batch_output.documents[3].source_file = PyStr("c.png")

\* successful + failed == total_documents == number of records
CountsAddUp ==
    (Saved /\ Len(image_paths) >= 1) =>
        LET info == batch_output.batch_info
        IN /\ info.successful + info.failed = info.total_documents
           /\ info.total_documents = Len(batch_output.documents)
           /\ info.total_documents = Len(image_paths)
           /\ info.successful =
                 Cardinality({i \in DOMAIN results : Conf(results[i]) > 0})

\* C18 (as claimed): for every batch of size >= 1 the counts add up and
\* avg_confidence equals the arithmetic mean of the records' confidences.
\* avg_confidence is in thousandths and confidences in hundredths.
C18_AvgIsExactMean ==
    /\ CountsAddUp
    /\ (Saved /\ Len(image_paths) >= 1) =>
          batch_output.batch_info.avg_confidence * Len(results)
              = SumConfidence(results, Len(results)) * 10

\* C18 (amended): for every batch of size >= 1 the counts add up and
\* avg_confidence is the arithmetic mean of the records' confidences rounded
\* to three decimals: it differs from the mean by at most 0.0005.
C18_AvgIsMeanRoundedToThreeDecimals ==
    /\ CountsAddUp
    /\ (Saved /\ Len(image_paths) >= 1) =>
          LET d == batch_output.batch_info.avg_confidence * Len(results)
                      - SumConfidence(results, Len(results)) * 10
          IN (IF d < 0 THEN -d ELSE d) * 2 <= Len(results)

\* C18 witness: three records with confidences 0.85, 0.85 and 0.6, whose mean
\* 0.7666... is reported as 0.767.
C18_Witness ==
    /\ Saved
    /\ Len(results) = 3
    /\ SumConfidence(results, Len(results)) = 230
    /\ batch_output.batch_info.avg_confidence = 767

\* C19: process_batch on an empty sequence of documents completes without a
\* division error, with a report of total 0 and avg_confidence 0, and returns
\* an empty list.
C19_EmptyBatchCompletes ==
    Len(image_paths) = 0 =>
        /\ batch_pc # "raised_zerodivision"
        /\ Saved => /\ batch_output.batch_info.total_documents = 0
                    /\ batch_output.batch_info.avg_confidence = 0
        /\ batch_pc = "returned" => results = <<>>

---------------------------------------------------------------------------
(* Further properties of HybridExtractor.extract *)

\* C21: for every document, if the Vision adapter reports itself usable,
\* extract invokes the Vision adapter for that document, whatever the
\* configured key list holds.
C21_UsableVisionIsInvoked ==
    (Returned /\ gemini_available) => calls.vision >= 1

\* C22: every non-null result of EasyOCRExtractor.extract carries a raw_text
\* entry, so that with a usable local model the enrichment step is reached.
C22_OcrResultCarriesRawText ==
    (Returned /\ ocr_ret \in EasyOCRReturns /\ ocr_ret # PyNone) =>
        /\ "raw_text" \in DOMAIN ocr_ret
        /\ local_llm_available => calls.llm = 1

---------------------------------------------------------------------------
(* Further properties of RoundRobinKeyManager *)

\* C23: a get_key or mark_rate_limited call made through one HybridExtractor
\* instance changes neither the cursor from which another instance is served
\* nor the cooldowns another instance sees.
C23_ManagerStateIsPerInstance ==
    \A i \in Instances :
        (km_last.op # "none" /\ km_last.via = i) =>
            \A j \in Instances \ {i} :
                /\ current_index = km_last.pre_idx
                /\ key_cooldowns = km_last.pre_cds

---------------------------------------------------------------------------
(* main.py: the command *)

\* What --input can name, and --method.
MainArgs ==
    {[input |-> "missing", images |-> 0, method |-> m] :
        m \in {"hybrid", "gemini", "ocr"}}
    \cup {[input |-> "file", images |-> 1, method |-> m] :
        m \in {"hybrid", "gemini", "ocr"}}
    \cup {[input |-> "dir", images |-> n, method |-> m] :
        n \in 0..MaxDocs, m \in {"hybrid", "gemini", "ocr"}}

\* Lines 72-84: the record main builds around an adapter's own result.
MainWrap(res, path) ==
    [doc_id |-> PyStr(Stem(path)),
     fields |-> [k \in FieldKeys |->
                    IF Truthy(res) THEN Get(res, k, PyNone) ELSE PyNone],
     confidence |-> IF Truthy(res) THEN Get(res, "confidence", PyNum(0))
                    ELSE PyNum(0),
     extraction_method |-> IF Truthy(res)
                           THEN Get(res, "extraction_method", PyStr("unknown"))
                           ELSE PyStr("failed")]

\* What extractor.extract(image_paths[0]) can answer at lines 69 and 86, by
\* the class of the extractor.
SingleReturns(cls) ==
    IF cls = "HybridExtractor" THEN ExtractReturns
    ELSE IF cls = "GeminiExtractor"
         THEN {PyNone, Raised} \cup {GeminiResult(d) : d \in VisionJson}
         ELSE EasyOCRReturns

InitMain ==
    /\ keys = <<>>
    /\ current_index = 0
    /\ key_cooldowns = EmptyDict
    /\ now = 0
    /\ gemini_available \in BOOLEAN
    /\ easyocr_available \in BOOLEAN
    /\ local_llm_available = FALSE
    /\ pc = "idle"
    /\ result = PyNone
    /\ extraction_method = "failed"
    /\ api_key = Unbound
    /\ record = NoRecord
    /\ vision_ret = NotCalled
    /\ ocr_ret = NotCalled
    /\ llm_ret = NotCalled
    /\ calls = NoCalls
    /\ marks = <<>>
    /\ rate_signal = FALSE
    /\ KmGhostIdle
    /\ BatchIdle
    /\ args \in MainArgs
    /\ main_pc = "scan"
    /\ extractor = "none"
    /\ exit_code = <<>>

\* Lines 33-47: the input path is resolved into image_paths, or main returns 1.
MainScan ==
    /\ main_pc = "scan"
    /\ IF args.input = "missing"
       THEN /\ main_pc' = "exited"
            /\ exit_code' = <<1>>
            /\ UNCHANGED image_paths
       ELSE /\ main_pc' = "create"
            /\ image_paths' = SubSeq(PathList, 1, args.images)
            /\ UNCHANGED exit_code
    /\ UNCHANGED <<args, extractor, results, outcomes, batch_pc, batch_output, writes>>
    /\ UNCHANGED <<keys, current_index, key_cooldowns, now, extractVars, kmGhostVars>>

\* Lines 50-63: the extractor is built for --method.
MainCreate ==
    /\ main_pc = "create"
    /\ IF args.method = "ocr" /\ ~easyocr_available
       THEN /\ main_pc' = "exited"
            /\ exit_code' = <<1>>
            /\ extractor' = "EasyOCRExtractor"
       ELSE /\ main_pc' = "process"
            /\ extractor' =
                 IF args.method = "gemini" /\ gemini_available
                 THEN "GeminiExtractor"
                 ELSE IF args.method = "ocr" THEN "EasyOCRExtractor"
                 ELSE "HybridExtractor"
            /\ UNCHANGED exit_code
    /\ UNCHANGED <<args, batchVars>>
    /\ UNCHANGED <<keys, current_index, key_cooldowns, now, extractVars, kmGhostVars>>

\* Lines 66-106 and 110-111: one document; its record is written to --output
\* and main returns 0.  extract and the write can raise.
MainSingle ==
    /\ main_pc = "process"
    /\ Len(image_paths) = 1
    /\ \E o \in SingleReturns(extractor) :
          /\ outcomes' = <<o>>
          /\ IF o = Raised
             THEN /\ main_pc' = "raised"
                  /\ UNCHANGED <<batch_output, writes, exit_code>>
             ELSE /\ batch_output' =
                       IF extractor = "HybridExtractor" THEN o
                       ELSE MainWrap(o, image_paths[1])
                  /\ \/ /\ writes' = writes + 1
                        /\ main_pc' = "exited"
                        /\ exit_code' = <<0>>
                     \/ /\ main_pc' = "raised"
                        /\ UNCHANGED <<writes, exit_code>>
    /\ UNCHANGED <<args, extractor, image_paths, results, batch_pc>>
    /\ UNCHANGED <<keys, current_index, key_cooldowns, now, extractVars, kmGhostVars>>

\* Line 108: extractor.process_batch(image_paths, args.output), an attribute
\* only HybridExtractor has.
MainBatch ==
    /\ main_pc = "process"
    /\ Len(image_paths) # 1
    /\ IF extractor = "HybridExtractor"
       THEN main_pc' = "batch" /\ batch_pc' = "loop"
       ELSE main_pc' = "raised" /\ UNCHANGED batch_pc
    /\ UNCHANGED <<args, extractor, exit_code, image_paths, results, outcomes,
                   batch_output, writes>>
    /\ UNCHANGED <<keys, current_index, key_cooldowns, now, extractVars, kmGhostVars>>

\* Lines 108-111: process_batch has returned, or its exception leaves main.
MainAfterBatch ==
    /\ main_pc = "batch"
    /\ batch_pc \in {"returned", "raised_oserror", "raised_zerodivision"}
    /\ IF batch_pc = "returned"
       THEN main_pc' = "exited" /\ exit_code' = <<0>>
       ELSE main_pc' = "raised" /\ UNCHANGED exit_code
    /\ UNCHANGED <<args, extractor, batchVars>>
    /\ UNCHANGED <<keys, current_index, key_cooldowns, now, extractVars, kmGhostVars>>

NextMain ==
    \/ MainScan
    \/ MainCreate
    \/ MainSingle
    \/ MainBatch
    \/ BatchDoc
    \/ BatchSave
    \/ BatchSummary
    \/ MainAfterBatch

SpecMain == InitMain /\ [][NextMain]_vars

\* main has ended: it returned, or an exception left it.
MainEnded == main_pc \in {"exited", "raised"}

\* No input document was found.
NoDocuments ==
    args.input = "missing" \/ (args.input = "dir" /\ args.images = 0)

\* C24: main returns 1 whenever no input document is found, without invoking
\* an extractor, and returns 0 only after the results were written.
C24_ExitCodes ==
    /\ (NoDocuments /\ MainEnded) => exit_code = <<1>>
    /\ NoDocuments => batch_pc = "idle" /\ writes = 0
    /\ exit_code = <<0>> => writes >= 1

---------------------------------------------------------------------------
(* Further properties of HybridExtractor.process_batch *)

\* C25: when the batch report cannot be written, the failure leaves
\* process_batch as an exception: the summary is reached, and the call
\* returns, only after a write that succeeded.
C25_WriteFailureIsRaised ==
    /\ batch_pc \in {"summary", "returned", "raised_zerodivision"} => writes = 1
    /\ batch_pc = "raised_oserror" => writes = 0 /\ Saved

\* C25 witness: three documents were processed and the write failed.
C25_Witness ==
    /\ batch_pc = "raised_oserror"
    /\ Len(results) = 3
    /\ Saved
    /\ writes = 0

---------------------------------------------------------------------------
(* Further properties of the offline pipeline *)

\* The local model's answer was merged into the OCR result.
Merged == Returned /\ record.extraction_method = "easyocr+local_llm"

\* C26: in the enrichment merge, each of the four fields independently holds
\* the local model's value if the local model returned it non-null (0 and the
\* empty string included), and the OCR value otherwise.
C26_MergeTakesEveryNonNullValue ==
    Merged =>
        \A k \in FieldKeys :
            record.fields[k] =
                IF Get(llm_ret, k, PyNone) # PyNone
                THEN llm_ret[k]
                ELSE Get(ocr_ret, k, PyNone)

\* C27: the local model is invoked for a document only if the OCR adapter
\* returned, for that document, a result with non-empty raw text and the local
\* model is usable; never after a Vision success, after an OCR null result or
\* with empty text; and at most once.
C27_LlmOnlyOnOcrText ==
    /\ calls.llm <= 1
    /\ (calls.llm = 1) <=> (llm_ret # NotCalled)
    /\ calls.llm = 1 =>
          /\ local_llm_available
          /\ calls.ocr = 1
          /\ IsDict(ocr_ret)
          /\ Get(ocr_ret, "raw_text", PyStr("")) \notin {PyNone, PyStr("")}
          /\ ~VisionSucceeded

\* C27 witness: the Vision call failed, the OCR result carried text and the
\* local model was asked.
C27_Witness ==
    /\ Returned
    /\ calls.vision = 1
    /\ vision_ret = PyNone
    /\ calls.llm = 1
    /\ IsDict(llm_ret)
    /\ Get(ocr_ret, "raw_text", PyNone) = PyStr("invoice text")

\* C27 witness: an OCR result with empty text, a usable local model, and no
\* call of it.
C27_WitnessEmptyText ==
    /\ Returned
    /\ local_llm_available
    /\ IsDict(ocr_ret)
    /\ Get(ocr_ret, "raw_text", PyNone) = PyStr("")
    /\ calls.llm = 0

---------------------------------------------------------------------------
(* Further properties of RoundRobinKeyManager.get_key *)

\* The key at distance d from the cursor the last call started from.
Candidate(d) == keys[((km_last.pre_idx + d) % Len(keys)) + 1]

\* The position (from 0) of key k in the pool.
IndexOf(k) == (CHOOSE i \in DOMAIN keys : keys[i] = k) - 1

\* C28: a get_key() call that returns from its scan has examined candidates in
\* pool order from the cursor, at most len(keys) of them, and leaves the
\* cursor at (index of the returned key + 1) mod len(keys); with no cooldowns,
\* any len(keys) consecutive calls return every key exactly once.
C28_ScanOrderAndCursor ==
    /\ (LastWasGetKey /\ ~km_last.fallback) =>
          /\ Len(keys) >= 1
          /\ \E d \in 0..(Len(keys) - 1) :
                /\ \A e \in 0..(d - 1) : CoolingBefore(Candidate(e))
                /\ ~CoolingBefore(Candidate(d))
                /\ km_last.key = Candidate(d)
                /\ current_index = (km_last.pre_idx + d + 1) % Len(keys)
          /\ current_index = (IndexOf(km_last.key) + 1) % Len(keys)
    /\ (Len(keys) >= 1 /\ Len(km_served) = Len(keys)) =>
          /\ {km_served[i] : i \in DOMAIN km_served} = PoolKeys
          /\ \A i, j \in DOMAIN km_served : i # j => km_served[i] # km_served[j]

\* C28 witness: from cursor 1 of three keys the call passed over two keys on
\* cooldown, wrapped around and returned the first key.
C28_Witness ==
    /\ LastWasGetKey
    /\ ~km_last.fallback
    /\ Len(keys) = 3
    /\ km_last.pre_idx = 1
    /\ CoolingBefore(keys[2])
    /\ CoolingBefore(keys[3])
    /\ km_last.key = keys[1]
    /\ current_index = 1

\* C28 witness: three calls in a row with an empty cooldown map, after a mark
\* and a reset, starting at a cursor that is not 0.
C28_WitnessSweep ==
    /\ Len(keys) = 3
    /\ km_marked
    /\ Len(km_served) = 3
    /\ km_served[1] = keys[2]

\* C29: when get_key() returns, from its scan, a key whose cooldown has
\* elapsed, that key's entry is gone from the cooldown map after the call, and
\* the entries of the other keys, the candidates skipped in the same scan
\* among them, are what they were.
C29_ExpiredEntryRemovedOthersKept ==
    (LastWasGetKey /\ ~km_last.fallback) =>
        /\ km_last.key \notin DOMAIN key_cooldowns
        /\ DOMAIN key_cooldowns = DOMAIN km_last.pre_cds \ {km_last.key}
        /\ \A k \in DOMAIN key_cooldowns : key_cooldowns[k] = km_last.pre_cds[k]

\* C29 witness: the candidate at the cursor was skipped, its cooldown still in
\* the future; the next one, whose cooldown had elapsed, was returned and its
\* entry removed, the skipped one's entry being kept.
C29_Witness ==
    /\ LastWasGetKey
    /\ ~km_last.fallback
    /\ Len(keys) >= 2
    /\ CoolingBefore(Candidate(0))
    /\ km_last.key = Candidate(1)
    /\ km_last.key \in DOMAIN km_last.pre_cds
    /\ km_last.pre_cds[km_last.key] <= km_last.pre_now
    /\ km_last.key \notin DOMAIN key_cooldowns
    /\ Candidate(0) \in DOMAIN key_cooldowns

\* C30: mark_rate_limited(key) at time t sets the key's cooldown to
\* t + cooldown_duration and changes nothing else: the cursor, the key list
\* and every other key's cooldown are what they were; on a key
\* already on cooldown it replaces the earlier deadline.
C30_MarkSetsOneEntry ==
    km_last.op = "mark" =>
        /\ key_cooldowns[km_last.key] = km_last.pre_now + cooldown_duration
        /\ DOMAIN key_cooldowns = DOMAIN km_last.pre_cds \cup {km_last.key}
        /\ \A k \in DOMAIN km_last.pre_cds \ {km_last.key} :
              key_cooldowns[k] = km_last.pre_cds[k]
        /\ current_index = km_last.pre_idx
        /\ keys = km_last.pre_keys
        /\ km_last.now = km_last.pre_now

\* C30 witness: a key marked at an earlier time is marked again; its deadline
\* is the later one, and another key's entry is kept.
C30_Witness ==
    /\ km_last.op = "mark"
    /\ km_last.key \in DOMAIN km_last.pre_cds
    /\ km_last.pre_cds[km_last.key] < km_last.pre_now + cooldown_duration
    /\ key_cooldowns[km_last.key] = km_last.pre_now + cooldown_duration
    /\ Cardinality(DOMAIN key_cooldowns) >= 2

---------------------------------------------------------------------------
(* Properties of the all-keys-on-cooldown path of get_key *)

\* The last call was a get_key that found every key of a non-empty pool on an
\* unexpired cooldown.
AllCooling ==
    /\ LastWasGetKey
    /\ Len(keys) >= 1
    /\ \A k \in PoolKeys : CoolingBefore(k)

\* min(self.key_cooldowns.values()) as the last call saw it.
MinDeadline == MinOf({km_last.pre_cds[k] : k \in DOMAIN km_last.pre_cds})

C32_FailsOnlyOnEmptyPool ==
    LastWasGetKey =>
        /\ km_last.raised <=> (Len(keys) = 0)
        /\ ~km_last.raised => km_last.key \in PoolKeys

\* C32 witness: after marks and earlier calls, a call that found every key of
\* a pool of three on cooldown has returned a key of the pool.
C32_Witness ==
    /\ AllCooling
    /\ Len(keys) = 3
    /\ ~km_last.raised
    /\ km_last.key \in PoolKeys

\* C32 witness: on an empty pool, with a key marked before, the call raised.
C32_WitnessEmptyPool ==
    /\ LastWasGetKey
    /\ Len(keys) = 0
    /\ DOMAIN km_last.pre_cds # {}
    /\ km_last.raised

---------------------------------------------------------------------------
(* process_batch composed with extract, the Vision adapter and the key      *)
(* manager: each turn of the loop runs extract step by step.               *)

\* The longest batch of the composed system.
RunDocs == 2

InitRun ==
    /\ keys = <<"AIzaA">>
    /\ current_index = 0
    /\ key_cooldowns = EmptyDict
    /\ now = 0
    /\ gemini_available = TRUE
    /\ easyocr_available \in BOOLEAN
    /\ local_llm_available = easyocr_available
    /\ pc = "idle"
    /\ result = PyNone
    /\ extraction_method = "failed"
    /\ api_key = Unbound
    /\ record = NoRecord
    /\ vision_ret = NotCalled
    /\ ocr_ret = NotCalled
    /\ llm_ret = NotCalled
    /\ calls = NoCalls
    /\ marks = <<>>
    /\ rate_signal = FALSE
    /\ KmGhostIdle
    /\ \E n \in 0..RunDocs : image_paths = SubSeq(PathList, 1, n)
    /\ results = <<>>
    /\ outcomes = <<>>
    /\ batch_pc = "loop"
    /\ batch_output = NoRecord
    /\ writes = 0
    /\ MainIdle

\* Lines 182-188 and 52-56: the loop takes the next path and enters extract.
RunStart ==
    /\ batch_pc = "loop"
    /\ Len(results) < Len(image_paths)
    /\ pc = "idle"
    /\ pc' = "strategy1"
    /\ result' = PyNone
    /\ extraction_method' = "failed"
    /\ api_key' = Unbound
    /\ record' = NoRecord
    /\ vision_ret' = NotCalled
    /\ ocr_ret' = NotCalled
    /\ llm_ret' = NotCalled
    /\ calls' = NoCalls
    /\ marks' = <<>>
    /\ rate_signal' = FALSE
    /\ UNCHANGED <<kmVars, flagVars, kmGhostVars, batchVars, mainVars>>

\* Lines 188-206: extract has returned or raised, its locals are gone, and the
\* loop appends the record.
RunCollect ==
    /\ batch_pc = "loop"
    /\ pc \in {"done", "escaped"}
    /\ LET o == IF pc = "done" THEN record ELSE Raised
       IN /\ results' = AppendResult(results,
                            LoopBody(o, image_paths[Len(results) + 1], now))
          /\ outcomes' = Append(outcomes, o)
    /\ pc' = "idle"
    /\ result' = PyNone
    /\ extraction_method' = "failed"
    /\ api_key' = Unbound
    /\ record' = NoRecord
    /\ vision_ret' = NotCalled
    /\ ocr_ret' = NotCalled
    /\ llm_ret' = NotCalled
    /\ calls' = NoCalls
    /\ marks' = <<>>
    /\ rate_signal' = FALSE
    /\ UNCHANGED <<kmVars, flagVars>>
    /\ UNCHANGED <<image_paths, batch_pc, batch_output, writes, kmGhostVars, mainVars>>

NextRun ==
    \/ RunStart
    \/ Strategy1
    \/ GeminiLoad
    \/ GeminiGetKey
    \/ GeminiCall
    \/ AfterGemini
    \/ Strategy2
    \/ OcrCall
    \/ LlmCall
    \/ Finish
    \/ Tick
    \/ RunCollect
    \/ BatchSave
    \/ BatchSummary

SpecRun == InitRun /\ [][NextRun]_vars

\* Every step that is possible is eventually taken: each call returns or
\* raises, and the loop goes on.
FairSpecRun == SpecRun /\ WF_vars(NextRun)

\* process_batch has ended: it returned, or an exception left it.
BatchEnded == batch_pc \in {"returned", "raised_oserror", "raised_zerodivision"}

\* C33: with every adapter call returning or raising, a batch run over N
\* documents ends, also when every key is on cooldown on the way (get_key
\* waits and goes on); the report is written at most once and only when all N
\* records are there, and it has been written once in every run that ends
\* without the write itself failing.
C33_BatchTerminatesAndWritesOnce ==
    /\ <>BatchEnded
    /\ [](writes <= 1)
    /\ [](writes = 1 => /\ Len(results) = Len(image_paths)
                        /\ batch_output.documents = results)
    /\ []((BatchEnded /\ batch_pc # "raised_oserror") => writes = 1)

\* C33 witness: a batch of two documents has returned after a get_key call
\* that found the only key on cooldown and waited: the clock is past the
\* latest time a document is started without a wait.
C33_Witness ==
    /\ batch_pc = "returned"
    /\ Len(results) = 2
    /\ writes = 1
    /\ now > MaxTime


\* ---------------------------------------------------------------------------
\* Two threads inside the key manager (key_manager.py has no lock).
\*
\* Each thread runs get_key one statement at a time, or mark_rate_limited (one
\* statement); the interpreter may switch threads between any two statements.
\* The shared state is keys, current_index and key_cooldowns; key, the loop
\* count, current_time and min_wait are locals of the call.
\* ---------------------------------------------------------------------------
Threads == {"t1", "t2"}

ThreadIdle == [pc |-> "idle", op |-> "none", i |-> 0, key |-> Unbound,
               current_time |-> 0, min_wait |-> 0, ret |-> NotCalled]

\* The cooldown maps two earlier mark_rate_limited calls can have left at the
\* time cooldown_duration: a mark at time 0 gives a deadline that has just
\* elapsed, a mark at time cooldown_duration one that has not.
ThreadCooldowns(ks) ==
    LET pool == {ks[i] : i \in DOMAIN ks}
    IN UNION {[S -> {cooldown_duration, 2 * cooldown_duration}] : S \in SUBSET pool}

\* self.current_index = (self.current_index + 1) % len(self.keys)
AdvanceCursor(idx, n) == (idx + 1) % n

InitThreads ==
    /\ keys \in KmPools
    /\ Len(keys) >= 1
    /\ current_index = 0
    /\ key_cooldowns \in ThreadCooldowns(keys)
    /\ now = cooldown_duration
    /\ gemini_available = FALSE
    /\ easyocr_available = FALSE
    /\ local_llm_available = FALSE
    /\ pc = "idle"
    /\ result = PyNone
    /\ extraction_method = "failed"
    /\ api_key = Unbound
    /\ record = NoRecord
    /\ vision_ret = NotCalled
    /\ ocr_ret = NotCalled
    /\ llm_ret = NotCalled
    /\ calls = NoCalls
    /\ marks = <<>>
    /\ rate_signal = FALSE
    /\ km_last = [op |-> "none"]
    /\ km_deadline = EmptyDict
    /\ km_cleared = {}
    /\ km_gets = 0
    /\ km_marked = FALSE
    /\ km_served = <<>>
    /\ threads = [start |-> key_cooldowns, t1 |-> ThreadIdle, t2 |-> ThreadIdle]
    /\ BatchIdle
    /\ MainIdle

ThreadFrame == <<keys, km_last, km_deadline, km_cleared, km_gets, km_marked,
                 km_served, extractVars, batchVars, mainVars>>

\* get_key is entered: current_time = time.time().
ThrGetKey(t) ==
    /\ threads[t].pc = "idle"
    /\ threads' = [threads EXCEPT ![t] = [ThreadIdle EXCEPT !.pc = "for",
                                                            !.op = "get_key",
                                                            !.current_time = now]]
    /\ UNCHANGED <<current_index, key_cooldowns, now, ThreadFrame>>

\* mark_rate_limited(key), a single assignment.
ThrMark(t) ==
    /\ threads[t].pc = "idle"
    /\ \E k \in {keys[i] : i \in DOMAIN keys} :
          key_cooldowns' = mark_rate_limited(key_cooldowns, k, now)
    /\ threads' = [threads EXCEPT ![t] = [ThreadIdle EXCEPT !.pc = "done",
                                                            !.op = "mark"]]
    /\ UNCHANGED <<current_index, now, ThreadFrame>>

\* for _ in range(len(self.keys)): the next iteration, or the end of the loop.
ThrFor(t) ==
    /\ threads[t].pc = "for"
    /\ threads' = IF threads[t].i < Len(keys)
                  THEN [threads EXCEPT ![t].pc = "read", ![t].i = @ + 1]
                  ELSE [threads EXCEPT ![t].pc = "min"]
    /\ UNCHANGED <<current_index, key_cooldowns, now, ThreadFrame>>

\* key = self.keys[self.current_index]
ThrRead(t) ==
    /\ threads[t].pc = "read"
    /\ threads' = [threads EXCEPT ![t].pc = "advance",
                                  ![t].key = keys[current_index + 1]]
    /\ UNCHANGED <<current_index, key_cooldowns, now, ThreadFrame>>

ThrAdvance(t) ==
    /\ threads[t].pc = "advance"
    /\ current_index' = AdvanceCursor(current_index, Len(keys))
    /\ threads' = [threads EXCEPT ![t].pc = "member"]
    /\ UNCHANGED <<key_cooldowns, now, ThreadFrame>>

\* if key in self.key_cooldowns:
ThrMember(t) ==
    /\ threads[t].pc = "member"
    /\ threads' = IF threads[t].key \in DOMAIN key_cooldowns
                  THEN [threads EXCEPT ![t].pc = "compare"]
                  ELSE [threads EXCEPT ![t].pc = "return"]
    /\ UNCHANGED <<current_index, key_cooldowns, now, ThreadFrame>>

\* if current_time < self.key_cooldowns[key]: continue -- the subscript raises
\* KeyError when the entry has gone since the membership test.
ThrCompare(t) ==
    /\ threads[t].pc = "compare"
    /\ threads' =
          IF threads[t].key \notin DOMAIN key_cooldowns
          THEN [threads EXCEPT ![t].pc = "raised"]
          ELSE IF threads[t].current_time < key_cooldowns[threads[t].key]
               THEN [threads EXCEPT ![t].pc = "for"]
               ELSE [threads EXCEPT ![t].pc = "del"]
    /\ UNCHANGED <<current_index, key_cooldowns, now, ThreadFrame>>

\* del self.key_cooldowns[key] -- KeyError when the entry has gone.
ThrDel(t) ==
    /\ threads[t].pc = "del"
    /\ IF threads[t].key \in DOMAIN key_cooldowns
       THEN /\ key_cooldowns' = DelItem(key_cooldowns, threads[t].key)
            /\ threads' = [threads EXCEPT ![t].pc = "return"]
       ELSE /\ threads' = [threads EXCEPT ![t].pc = "raised"]
            /\ UNCHANGED key_cooldowns
    /\ UNCHANGED <<current_index, now, ThreadFrame>>

\* return key
ThrReturn(t) ==
    /\ threads[t].pc = "return"
    /\ threads' = [threads EXCEPT ![t].pc = "done", ![t].ret = threads[t].key]
    /\ UNCHANGED <<current_index, key_cooldowns, now, ThreadFrame>>

\* min_wait = min(self.key_cooldowns.values()) - current_time -- min() of an
\* empty sequence raises ValueError.
ThrMin(t) ==
    /\ threads[t].pc = "min"
    /\ threads' =
          IF DOMAIN key_cooldowns = {}
          THEN [threads EXCEPT ![t].pc = "raised"]
          ELSE [threads EXCEPT
                  ![t].pc = "sleep",
                  ![t].min_wait =
                      MinOf({key_cooldowns[k] : k \in DOMAIN key_cooldowns})
                      - threads[t].current_time]
    /\ UNCHANGED <<current_index, key_cooldowns, now, ThreadFrame>>

\* if min_wait > 0: time.sleep(min_wait + 1)
ThrSleep(t) ==
    /\ threads[t].pc = "sleep"
    /\ now' = IF threads[t].min_wait > 0
              THEN now + threads[t].min_wait + 1
              ELSE now
    /\ threads' = [threads EXCEPT ![t].pc = "clear"]
    /\ UNCHANGED <<current_index, key_cooldowns, ThreadFrame>>

\* self.key_cooldowns.clear()
ThrClear(t) ==
    /\ threads[t].pc = "clear"
    /\ key_cooldowns' = EmptyDict
    /\ threads' = [threads EXCEPT ![t].pc = "first"]
    /\ UNCHANGED <<current_index, now, ThreadFrame>>

\* return self.keys[0]
ThrFirst(t) ==
    /\ threads[t].pc = "first"
    /\ threads' = [threads EXCEPT ![t].pc = "done", ![t].ret = keys[1]]
    /\ UNCHANGED <<current_index, key_cooldowns, now, ThreadFrame>>

NextThreads ==
    \E t \in Threads :
        \/ ThrGetKey(t)
        \/ ThrMark(t)
        \/ ThrFor(t)
        \/ ThrRead(t)
        \/ ThrAdvance(t)
        \/ ThrMember(t)
        \/ ThrCompare(t)
        \/ ThrDel(t)
        \/ ThrReturn(t)
        \/ ThrMin(t)
        \/ ThrSleep(t)
        \/ ThrClear(t)
        \/ ThrFirst(t)

SpecThreads == InitThreads /\ [][NextThreads]_vars

BothGotKeys == \A t \in Threads : threads[t].op = "get_key" /\ threads[t].pc = "done"

\* C34: two threads calling get_key and mark_rate_limited without a lock leave
\* the manager as serialized calls would: no call raises, and two get_key calls
\* on a pool of two or more keys with no cooldowns return distinct keys and
\* advance the cursor by two.
C34_ThreadsBehaveAsSerialized ==
    /\ \A t \in Threads : threads[t].pc # "raised"
    /\ (BothGotKeys /\ Len(keys) >= 2 /\ threads.start = EmptyDict)
          => /\ threads["t1"].ret # threads["t2"].ret
             /\ current_index = 2 % Len(keys)

\* The two parts of C34 taken apart, each violated on its own.
C34_NoThreadRaises == \A t \in Threads : threads[t].pc # "raised"

C34_DistinctKeys ==
    (BothGotKeys /\ Len(keys) >= 2 /\ threads.start = EmptyDict)
        => threads["t1"].ret # threads["t2"].ret


----------------------------------------------------------------------------
\* The last call was a get_key that took the all-keys-on-cooldown fallback and
\* returned.
TookFallback == LastWasGetKey /\ km_last.fallback /\ ~km_last.raised

\* C35: the fallback of get_key leaves the cursor where it was before the call
\* and returns keys[0] whatever the cursor is; the next get_key starts from
\* that cursor, finds the map empty and returns the key under it.
C35_FallbackKeepsCursor ==
    /\ [](TookFallback => /\ current_index = km_last.pre_idx
                          /\ km_last.key = keys[1]
                          /\ key_cooldowns = EmptyDict)
    /\ [][(TookFallback /\ km_last'.op = "get_key" /\ km_last' # km_last)
             => /\ ~km_last'.fallback
                /\ km_last'.pre_idx = km_last.pre_idx
                /\ km_last'.key = keys[km_last.pre_idx + 1]]_vars

\* C35 witness: the fallback ran with the cursor off the first key, handed out
\* keys[0] and left the cursor there.
C35_Witness ==
    /\ TookFallback
    /\ Len(keys) >= 2
    /\ km_last.pre_idx # 0
    /\ current_index = km_last.pre_idx
    /\ km_last.key = keys[1]

\* C35 witness: keys[0] twice in a row -- a call on the map the fallback
\* emptied, with the cursor still at 0, returned keys[0] again.
C35_WitnessTwice ==
    /\ LastWasGetKey
    /\ ~km_last.fallback
    /\ Len(keys) >= 2
    /\ km_last.pre_cds = EmptyDict
    /\ PoolKeys \subseteq km_cleared
    /\ km_served = <<keys[1]>>
    /\ km_last.pre_idx = 0
    /\ km_last.key = keys[1]


----------------------------------------------------------------------------
\* C36: from construction with a non-empty pool, whatever get_key and
\* mark_rate_limited calls are made, the cursor stays within 0..len(keys)-1
\* and the key list is never changed.
C36_CursorInRangeKeysFixed ==
    /\ [](Len(keys) >= 1 => current_index \in 0..(Len(keys) - 1))
    /\ [][keys' = keys]_vars
    /\ [](km_last.op # "none" => keys = km_last.pre_keys)

\* C36 witness: after marks and at least three get_key calls on the pool of
\* three, the cursor has wrapped back to 0.
C36_Witness ==
    /\ LastWasGetKey
    /\ Len(keys) = 3
    /\ km_marked
    /\ km_gets >= 3
    /\ km_last.pre_idx = 2
    /\ current_index = 0


----------------------------------------------------------------------------
\* C37: in the composition of extract, the Vision adapter and the key
\* manager, every key in the cooldown map is a key of the pool:
\* mark_rate_limited is called only with the key that get_key returned for the
\* same Vision call.
C37_CooldownKeysAreInPool ==
    /\ DOMAIN key_cooldowns \subseteq {keys[i] : i \in DOMAIN keys}
    /\ \A i \in DOMAIN marks :
          /\ marks[i] = api_key
          /\ calls.get_key = 1
          /\ api_key \in {keys[j] : j \in DOMAIN keys}

\* C37 witness: a rate-limited Vision call has put the key it was given, the
\* second of a pool of two, on cooldown.
C37_Witness ==
    /\ Len(keys) = 2
    /\ marks = <<keys[2]>>
    /\ api_key = keys[2]
    /\ keys[2] \in DOMAIN key_cooldowns


----------------------------------------------------------------------------
\* C38: for one document extract calls each adapter at most once and takes at
\* most one key from get_key; a Vision call that failed or was rate limited is
\* not repeated with another key, even when another key is free.
C38_OneCallPerAdapter ==
    /\ calls.vision <= 1
    /\ calls.ocr <= 1
    /\ calls.llm <= 1
    /\ calls.get_key <= calls.vision
    /\ Len(marks) <= calls.get_key
    /\ (pc = "done" /\ vision_ret = PyNone /\ calls.get_key = 1)
          => extraction_method # "gemini"

\* C38 witness: the document is finished, its one Vision call was rate limited
\* on the first key of two, the second key was free and was not asked for.
C38_Witness ==
    /\ pc = "done"
    /\ Len(keys) = 2
    /\ marks = <<keys[1]>>
    /\ keys[2] \notin DOMAIN key_cooldowns
    /\ calls.vision = 1
    /\ calls.get_key = 1
    /\ calls.ocr = 1


----------------------------------------------------------------------------
\* The number of records of rs whose extraction_method is 'failed'.
FailedRecords(rs) ==
    Cardinality({i \in DOMAIN rs : rs[i].extraction_method = "failed"})

\* C39: in every batch report, batch_info.failed is the number of records
\* whose extraction_method is 'failed' and batch_info.successful the number of
\* records whose extraction_method is not 'failed'.
C39_FailedCountsFailedRecords ==
    Saved =>
        /\ batch_output.batch_info.failed
               = FailedRecords(batch_output.documents)
        /\ batch_output.batch_info.successful
               = Len(batch_output.documents) - FailedRecords(batch_output.documents)


----------------------------------------------------------------------------
\* C40: GeminiExtractor.extract never raises; every failure inside it gives
\* None, also a failure that comes before a key was obtained from get_key and
\* whose error text contains '429' or 'RESOURCE_EXHAUSTED'.
C40_VisionAdapterNeverRaises == vision_ret # Raised

===========================================================================
